---- MODULE Spec2Model ----
(***************************************************************************)
(* TRISH backend: the Completion Gateway and Conclusion Pipeline.          *)
(*                                                                         *)
(* Two variants of the service live in the repository:                     *)
(*   src/TRISH-Backend/app.py  the multi-credential variant ("B" below):   *)
(*       a pool API_KEYS tried in order by get_trish_response;             *)
(*   src/app.py                the single-credential variant ("A" below):  *)
(*       pydantic request validation, sanitize_input, get_ai_response and  *)
(*       the structure check of generated conclusions.                     *)
(*                                                                         *)
(* Strings are modelled as sequences of symbols.  A symbol is a character  *)
(* where the code looks at characters (" ", "#", "-", "<", ">", "&") and a *)
(* whole word or phrase where it does not.  A text is the sequence of its  *)
(* lines, i.e. the value of text.split('\n').                              *)
(***************************************************************************)
EXTENDS Integers, Sequences, FiniteSets, TLC

\* Bounds of the model.
MaxKeys == 3
MaxTime == 4
TicksPerMinute == 2
MaxProbes == 2
MaxLines == 5

VARIABLES
    API_KEYS,   \* B: the credential pool, fixed at start-up
    OPENROUTER_API_KEY, \* A: the one credential, fixed at start-up
    provider,   \* what the provider answers to the attempt made with pool entry i
    request,    \* the request being handled
    pc,         \* position of the handler
    idx,        \* B: loop index of get_trish_response
    calls,      \* the provider calls issued for the request, in order
    response,   \* the HTTP response of the request
    health,     \* B: the latest response of GET /api/health
    now,        \* the limiter's clock, in ticks
    windows,    \* the limiter's storage for one client address: route -> counters
    arrivals,   \* POST /api/chat requests received in each of the last ticks
    served,     \* requests to chat and generate_conclusion let through so far
    last,       \* the limiter's decision on the latest request
    document,   \* a generated conclusion handed to parse_conclusion
    parsed      \* what parse_conclusion returned for it

handlerVars == <<API_KEYS, OPENROUTER_API_KEY, provider, request, pc, idx, calls, response, health>>
limiterVars == <<now, windows, arrivals, served, last>>

parserVars == <<document, parsed>>

vars == <<handlerVars, limiterVars, parserVars>>

----------------------------------------------------------------------------
(* Strings and texts *)

RECURSIVE lstrip(_)
lstrip(s) == IF s # <<>> /\ Head(s) = " " THEN lstrip(Tail(s)) ELSE s

RECURSIVE rstrip(_)
rstrip(s) == IF s # <<>> /\ s[Len(s)] = " " THEN rstrip(SubSeq(s, 1, Len(s) - 1)) ELSE s

\* str.strip()
strip(s) == rstrip(lstrip(s))

\* str.startswith(p)
startswith(s, p) == Len(s) >= Len(p) /\ SubSeq(s, 1, Len(p)) = p

\* `p in s` for one line s
InLine(p, s) == \E i \in 1..(Len(s) - Len(p) + 1) : SubSeq(s, i, i + Len(p) - 1) = p

\* `p in text` for a phrase p that holds no newline
InText(p, text) == \E i \in 1..Len(text) : InLine(p, text[i])

\* the empty string, as a text
EmptyText == << <<>> >>

\* bool(text): a string is truthy unless it is empty
Truthy(text) == text # EmptyText

\* text.strip() == "": every character is whitespace (a newline is whitespace)
IsBlank(text) == \A i \in 1..Len(text) : \A j \in 1..Len(text[i]) : text[i][j] = " "

----------------------------------------------------------------------------
(* Conclusion texts *)

KeyPoints == <<"Key Points Summary">>
Insights == <<"Major Insights">>
Agreements == <<"Agreements Reached">>
ActionPlan == <<"Action Plan">>

HeaderMark == <<"#", "#", " ">>
BulletMark == <<"-", " ">>

HeaderLine(name) == HeaderMark \o name
BulletLine(b) == BulletMark \o <<b>>

\* the loop body with a repeated header keeping the list the section already has:
\* sections.setdefault(current_section, [])
ParseStrippedKeeping(st, line) ==
    IF startswith(line, HeaderMark)
    THEN LET name == strip(SubSeq(line, 4, Len(line)))
             known == \E k \in 1..Len(st.sections) : st.sections[k].name = name
         IN [current |-> name,
             sections |->
                IF known THEN st.sections
                ELSE Append(st.sections, [name |-> name, bullets |-> <<>>])]
    ELSE IF st.current # <<>> /\ startswith(line, BulletMark)
    THEN [current |-> st.current,
          sections |->
             [k \in 1..Len(st.sections) |->
                IF st.sections[k].name = st.current
                THEN [name |-> st.current,
                      bullets |-> Append(st.sections[k].bullets,
                                         strip(SubSeq(line, 3, Len(line))))]
                ELSE st.sections[k]]]
    ELSE st

\* parse_conclusion: the body of the loop for a line that has been stripped.
\* st.sections is the dict in insertion order, st.current is current_section
\* (None and '' are both falsy and both modelled as <<>>).
ParseStripped(st, line) ==
    IF startswith(line, HeaderMark)
    THEN LET name == strip(SubSeq(line, 4, Len(line)))
             known == \E k \in 1..Len(st.sections) : st.sections[k].name = name
         IN [current |-> name,
             sections |->
                IF known
                THEN [k \in 1..Len(st.sections) |->
                        IF st.sections[k].name = name
                        THEN [name |-> name, bullets |-> <<>>]
                        ELSE st.sections[k]]
                ELSE Append(st.sections, [name |-> name, bullets |-> <<>>])]
    ELSE IF st.current # <<>> /\ startswith(line, BulletMark)
    THEN [current |-> st.current,
          sections |->
             [k \in 1..Len(st.sections) |->
                IF st.sections[k].name = st.current
                THEN [name |-> st.current,
                      bullets |-> Append(st.sections[k].bullets,
                                         strip(SubSeq(line, 3, Len(line))))]
                ELSE st.sections[k]]]
    ELSE st

\* the loop body without `line = line.strip()`
ParseLineUnstripped(st, raw) == ParseStripped(st, raw)

\* parse_conclusion: one step of the loop over text.split('\n')
ParseLine(st, raw) == ParseStripped(st, strip(raw))

RECURSIVE ParseFrom(_, _, _)
ParseFrom(st, text, i) ==
    IF i > Len(text) THEN st ELSE ParseFrom(ParseLine(st, text[i]), text, i + 1)

parse_conclusion(text) ==
    ParseFrom([current |-> <<>>, sections |-> <<>>], text, 1).sections

NotParsed == [done |-> FALSE, sections |-> <<>>]

ParserIdle ==
    /\ document = EmptyText
    /\ parsed = NotParsed

----------------------------------------------------------------------------
(* The provider *)

\* What one completion call can come back with:
\*   transport  connection error or timeout (requests.exceptions.RequestException)
\*   http       a non-2xx status (raise_for_status raises HTTPError)
\*   nochoices  a 2xx payload without a "choices" entry, or with an empty one
\*   nomessage  a 2xx payload whose first choice has no "message"
\*   null       a 2xx payload whose content is null
\*   ok         a 2xx payload with a content string (possibly empty or blank)
Outcome(kind, content) == [kind |-> kind, content |-> content]

BlankText == << <<" ">> >>
ChatReply == << <<"What", " ", "do", " ", "you", " ", "think?">> >>
GoodConclusion ==
    << HeaderLine(KeyPoints), BulletLine("a"), HeaderLine(Insights), BulletLine("b"),
       HeaderLine(Agreements), BulletLine("c"), HeaderLine(ActionPlan), BulletLine("d") >>
\* the four section names, none of them in a "## " header
BareConclusion == << KeyPoints \o <<",">> \o Insights, Agreements \o <<",">> \o ActionPlan >>
\* a well-formed conclusion without the "Agreements Reached" section
PartialConclusion ==
    << HeaderLine(KeyPoints), BulletLine("a"), HeaderLine(Insights), BulletLine("b"),
       HeaderLine(ActionPlan), BulletLine("d") >>

FailureKinds == {"transport", "http", "nochoices", "nomessage", "null"}

----------------------------------------------------------------------------
(* Requests and responses *)

PlainTitle == <<"o", "k">>
ScriptTitle == <<"<", "s", ">">>
DefaultTopic == <<"General discussion">>

\* the JSON body: a field that is absent has has* = FALSE
FullBody(hasM, n, hasT, title, hasU, user, hasF, nf) ==
    [hasMessages |-> hasM, messages |-> [i \in 1..n |-> "msg"],
     hasTitle |-> hasT, title |-> title,
     hasUser |-> hasU, user |-> user,
     hasFocus |-> hasF, focus |-> [i \in 1..nf |-> "area"]]

\* a body without the optional fields
Body(hasM, n, hasT, title) == FullBody(hasM, n, hasT, title, FALSE, <<>>, FALSE, 0)

NoRequest == [variant |-> "-", endpoint |-> "-", body |-> Body(FALSE, 0, FALSE, <<>>)]

\* an error message, as a text
Msg(m) == << <<m>> >>

Response(status, body, text, structured, retry) ==
    [status |-> status, body |-> body, text |-> text,
     structured |-> structured, retry |-> retry]

NoResponse == Response(0, "-", EmptyText, <<>>, "-")

\* no health response yet
NoHealth == [status |-> 0, available_keys |-> 0]

----------------------------------------------------------------------------
(* The Rate Governor: flask_limiter.Limiter, keyed by get_remote_address, with the
   library's defaults: the fixed-window strategy over in-memory storage.  One
   client address is modelled.  The clock advances in ticks, TicksPerMinute to the
   minute; all requests of one tick arrive at the same instant. *)

PerDay == 200
PerHour == 50
ChatPerMinute == 15
ConclusionPerMinute == 10
MinutesPerHour == 60
HoursPerDay == 24

MinuteTicks == TicksPerMinute
HourTicks == MinutesPerHour * MinuteTicks
DayTicks == HoursPerDay * HourTicks

Limit(amount, period) == [amount |-> amount, period |-> period]

Routes == {"chat", "generate_conclusion", "health"}

\* Limiter(default_limits=["200 per day", "50 per hour"])
default_limits == <<Limit(PerDay, DayTicks), Limit(PerHour, HourTicks)>>

\* the two decorators with their limits exchanged
DecoratedLimitsExchanged(route) ==
    CASE route = "chat" -> <<Limit(ConclusionPerMinute, MinuteTicks)>>
      [] route = "generate_conclusion" -> <<Limit(ChatPerMinute, MinuteTicks)>>
      [] OTHER -> <<>>

\* @limiter.limit("15/minute") on chat, @limiter.limit("10/minute") on
\* generate_conclusion, none on health_check
DecoratedLimits(route) ==
    CASE route = "chat" -> <<Limit(ChatPerMinute, MinuteTicks)>>
      [] route = "generate_conclusion" -> <<Limit(ConclusionPerMinute, MinuteTicks)>>
      [] OTHER -> <<>>

\* The limits checked for a route.  limiter.limit() is called without
\* override_defaults=False, so a decorated route is checked against its own limits
\* only; the default limits apply to the routes that carry no decorator, each with
\* counters of its own.
LimitsFor(route) ==
    IF DecoratedLimits(route) # <<>> THEN DecoratedLimits(route) ELSE default_limits

NoWindow == [count |-> 0, expires |-> 0]

\* storage.get: a counter past its expiry is gone
Live(w, t) == IF w.count > 0 /\ t < w.expires THEN w ELSE NoWindow

\* storage.incr: add one; the hit that creates the counter sets its expiry
Incr(w, limit, t) ==
    LET cur == Live(w, t) IN
    [count |-> cur.count + 1,
     expires |-> IF cur.count = 0 THEN t + limit.period ELSE cur.expires]

\* FixedWindowRateLimiter.hit: the request is within the limit
WithinLimit(count, limit) == count <= limit.amount

\* The limits of a route are hit in order; the first one exceeded rejects the
\* request and the limits after it are not hit.
RECURSIVE Evaluate(_, _, _, _)
Evaluate(ws, limits, i, t) ==
    IF i > Len(limits) THEN [windows |-> ws, ok |-> TRUE]
    ELSE LET w == Incr(ws[i], limits[i], t)
             hit == [ws EXCEPT ![i] = w]
         IN IF WithinLimit(w.count, limits[i])
            THEN Evaluate(hit, limits, i + 1, t)
            ELSE [windows |-> hit, ok |-> FALSE]

\* ratelimit_handler (variant A); variant B answers with Flask's own 429
RateLimited == 429

NoDecision == [route |-> "-", status |-> 0]

\* what an observer of POST /api/chat has counted: the requests received at each
\* of the last TicksPerMinute instants (the latest first), the instant at which
\* the current 60-second window was opened, and the requests received in it
NoArrivals == [perTick |-> [i \in 1..TicksPerMinute |-> 0], opened |-> 0, inWindow |-> 0]

LimiterIdle ==
    /\ now = 0
    /\ windows = [r \in Routes |-> [i \in 1..Len(LimitsFor(r)) |-> NoWindow]]
    /\ arrivals = NoArrivals
    /\ served = 0
    /\ last = NoDecision

RECURSIVE SumTo(_, _)
SumTo(a, i) == IF i = 0 THEN 0 ELSE a[i] + SumTo(a, i - 1)

\* the chat requests received within the last 60 seconds
ArrivedInMinute == SumTo(arrivals.perTick, Len(arrivals.perTick))

\* one more chat request is received at instant t: a window that has lasted 60
\* seconds is over, and the request opens the next one
Observe(a, t) ==
    LET fresh == a.inWindow = 0 \/ t >= a.opened + TicksPerMinute IN
    [perTick |-> [a.perTick EXCEPT ![1] = @ + 1],
     opened |-> IF fresh THEN t ELSE a.opened,
     inWindow |-> IF fresh THEN 1 ELSE a.inWindow + 1]

\* Limiter's before_request check for a request to `route`: the limits of the
\* route are evaluated, and the request goes on to the view or is answered 429.
Check(route) ==
    LET r == Evaluate(windows[route], LimitsFor(route), 1, now) IN
    /\ windows' = [windows EXCEPT ![route] = r.windows]
    /\ last' = [route |-> route, status |-> IF r.ok THEN 200 ELSE RateLimited]
    /\ UNCHANGED now
    /\ UNCHANGED handlerVars
    /\ UNCHANGED parserVars

\* the request was let through
Passed(route) == last'.status = 200

\* requests of a route are followed up to one past its first limit
UpToLimit(route) == Live(windows[route][1], now).count <= LimitsFor(route)[1].amount

\* and the routes a run is not about up to MaxProbes requests a window
Probe(route) == Live(windows[route][1], now).count < MaxProbes

\* time passes: the responses are out, the storage drops the counters that expired
L_Tick ==
    /\ now < MaxTime
    /\ now' = now + 1
    /\ windows' = [r \in Routes |-> [i \in 1..Len(windows[r]) |-> Live(windows[r][i], now + 1)]]
    /\ arrivals' = [arrivals EXCEPT
                      !.perTick = [i \in 1..TicksPerMinute |-> IF i = 1 THEN 0 ELSE arrivals.perTick[i - 1]]]
    /\ last' = NoDecision
    /\ UNCHANGED served
    /\ UNCHANGED handlerVars
    /\ UNCHANGED parserVars

\* Requests as the observer of POST /api/chat sees them.
R_Chat ==
    /\ UpToLimit("chat")
    /\ Check("chat")
    /\ arrivals' = Observe(arrivals, now)
    /\ UNCHANGED served

R_Conclusion ==
    /\ Probe("generate_conclusion")
    /\ Check("generate_conclusion")
    /\ UNCHANGED <<arrivals, served>>

R_Health ==
    /\ Probe("health")
    /\ Check("health")
    /\ UNCHANGED <<arrivals, served>>

\* Requests as an observer of the hourly and daily totals sees them: `served`
\* counts the chat and generate_conclusion requests that were let through.
Q_Chat ==
    /\ UpToLimit("chat")
    /\ served <= PerHour
    /\ Check("chat")
    /\ served' = IF Passed("chat") THEN served + 1 ELSE served
    /\ UNCHANGED arrivals

Q_Conclusion ==
    /\ UpToLimit("generate_conclusion")
    /\ served <= PerHour
    /\ Check("generate_conclusion")
    /\ served' = IF Passed("generate_conclusion") THEN served + 1 ELSE served
    /\ UNCHANGED arrivals

----------------------------------------------------------------------------
(* Variant B: src/TRISH-Backend/app.py *)

\* the names of the credentials, by position in the pool
KeyNames == <<"A", "B", "C", "D", "E">>

\* os.getenv gives None for an unset variable and '' for one set to nothing
\* (API_KEYS lists two variables; get_trish_response loops over whatever the list
\* holds, and the pool is modelled with 1 to MaxKeys entries)
KeyValues(i) == {"None", "", KeyNames[i]}

Pools == UNION {{p \in [1..n -> {"None", ""} \cup {KeyNames[i] : i \in 1..n}] :
                    \A i \in 1..n : p[i] \in KeyValues(i)} : n \in 1..MaxKeys}

\* the test for an unset entry only: `api_key is None`
UnusableUnsetOnly(key) == key = "None"

\* `not api_key`
Unusable(key) == key \in {"None", ""}

OutcomesB ==
    {Outcome(k, EmptyText) : k \in {"transport", "http", "nochoices", "null"}}
    \cup {Outcome("ok", t) : t \in {EmptyText, BlankText, GoodConclusion, PartialConclusion}}

BodiesB ==
    { Body(TRUE, 2, TRUE, ScriptTitle), Body(TRUE, 3, FALSE, <<>>), Body(FALSE, 0, TRUE, PlainTitle) }

\* data.get('messages', []) and data.get('discussion_topic', 'General discussion')
MessagesB(body) == IF body.hasMessages THEN body.messages ELSE <<>>
TopicB(body) == IF body.hasTitle THEN body.title ELSE DefaultTopic

\* the system prompts of chat and generate_conclusion: f-strings around the topic
SystemPromptB(endpoint, topic) ==
    IF endpoint = "chat"
    THEN <<"You are TRISH, an AI discussion facilitator. Current topic: ">> \o topic
            \o <<"Your role: ... Be concise and engaging.">>
    ELSE <<"Generate comprehensive conclusion for: ">> \o topic
            \o <<"Required format: ... maintain professional tone.">>

\* try_api_key: the content, None (a caught RequestException or a null content),
\* or an exception that is not a RequestException and so leaves the function
try_api_key(out) ==
    CASE out.kind \in {"transport", "http"} -> [tag |-> "none", text |-> EmptyText]
      [] out.kind \in {"nochoices", "nomessage"} -> [tag |-> "raise", text |-> EmptyText]
      [] out.kind = "null" -> [tag |-> "none", text |-> EmptyText]
      [] OTHER -> [tag |-> "value", text |-> out.content]

\* `if response:` on what try_api_key returned
Usable(r) == r.tag = "value" /\ Truthy(r.text)

\* chat and generate_conclusion after get_trish_response returned `text`
RespondB(endpoint, text) ==
    IF endpoint = "chat"
    THEN Response(200, "response", text, <<>>, "-")
    ELSE Response(200, "conclusion", text, parse_conclusion(text), "-")

UnavailableB == Response(503, "error", EmptyText, <<>>, "-")

\* an exception no handler catches: Flask answers 500
UnhandledB == Response(500, "error", EmptyText, <<>>, "-")

InitB ==
    /\ API_KEYS \in Pools
    /\ OPENROUTER_API_KEY = "None"
    /\ provider = <<>>
    /\ request = NoRequest
    /\ pc = "idle"
    /\ idx = 0
    /\ calls = <<>>
    /\ response = NoResponse
    /\ health = NoHealth
    /\ LimiterIdle
    /\ ParserIdle

\* a request reaches chat or generate_conclusion; the handler builds the prompt
\* and enters get_trish_response
B_Request ==
    /\ pc = "idle"
    /\ \E ep \in {"chat", "generate_conclusion"}, body \in BodiesB :
          request' = [variant |-> "B", endpoint |-> ep, body |-> body]
    /\ \E prov \in [1..Len(API_KEYS) -> OutcomesB] :
          /\ \A i \in 1..Len(API_KEYS) : Unusable(API_KEYS[i]) => prov[i] = Outcome("transport", EmptyText)
          /\ provider' = prov
    /\ idx' = 1
    /\ calls' = <<>>
    /\ response' = NoResponse
    /\ pc' = "gateway"
    /\ UNCHANGED <<API_KEYS, OPENROUTER_API_KEY>>
    /\ UNCHANGED health
    /\ UNCHANGED limiterVars
    /\ UNCHANGED parserVars

\* get_trish_response: `if not api_key: continue`
B_Skip ==
    /\ pc = "gateway"
    /\ idx <= Len(API_KEYS)
    /\ Unusable(API_KEYS[idx])
    /\ idx' = idx + 1
    /\ UNCHANGED <<API_KEYS, OPENROUTER_API_KEY, provider, request, pc, calls, response>>
    /\ UNCHANGED health
    /\ UNCHANGED limiterVars
    /\ UNCHANGED parserVars

\* get_trish_response: one attempt; the handler finishes when it returns or raises
B_Attempt ==
    /\ pc = "gateway"
    /\ idx <= Len(API_KEYS)
    /\ ~Unusable(API_KEYS[idx])
    /\ LET r == try_api_key(provider[idx]) IN
         /\ calls' = Append(calls,
                [slot |-> idx,
                 key |-> API_KEYS[idx],
                 prompt |-> SystemPromptB(request.endpoint, TopicB(request.body)),
                 messages |-> MessagesB(request.body),
                 outcome |-> provider[idx]])
         /\ IF r.tag = "raise"
            THEN /\ response' = UnhandledB
                 /\ pc' = "done"
                 /\ idx' = idx
            ELSE IF Usable(r)
            THEN /\ response' = RespondB(request.endpoint, r.text)
                 /\ pc' = "done"
                 /\ idx' = idx
            ELSE /\ idx' = idx + 1
                 /\ UNCHANGED <<response, pc>>
    /\ UNCHANGED <<API_KEYS, OPENROUTER_API_KEY, provider, request>>
    /\ UNCHANGED health
    /\ UNCHANGED limiterVars
    /\ UNCHANGED parserVars

\* get_trish_response: the loop ends, "All API keys failed", return None
B_Exhausted ==
    /\ pc = "gateway"
    /\ idx > Len(API_KEYS)
    /\ response' = UnavailableB
    /\ pc' = "done"
    /\ UNCHANGED <<API_KEYS, OPENROUTER_API_KEY, provider, request, idx, calls>>
    /\ UNCHANGED health
    /\ UNCHANGED limiterVars
    /\ UNCHANGED parserVars

\* health_check: "available_keys": sum(1 for key in API_KEYS if key is not None)
available_keys == Cardinality({i \in 1..Len(API_KEYS) : API_KEYS[i] # "None"})

\* GET /api/health, served between two requests
B_Health ==
    /\ pc = "idle"
    /\ health' = [status |-> 200, available_keys |-> available_keys]
    /\ UNCHANGED <<API_KEYS, OPENROUTER_API_KEY, provider, request, pc, idx, calls, response>>
    /\ UNCHANGED limiterVars
    /\ UNCHANGED parserVars

\* the response is sent; the next request starts from the same pool
Finish ==
    /\ pc = "done"
    /\ pc' = "idle"
    /\ request' = NoRequest
    /\ provider' = <<>>
    /\ idx' = 0
    /\ calls' = <<>>
    /\ response' = NoResponse
    /\ UNCHANGED <<API_KEYS, OPENROUTER_API_KEY>>
    /\ UNCHANGED health
    /\ UNCHANGED limiterVars
    /\ UNCHANGED parserVars

NextB == B_Request \/ B_Skip \/ B_Attempt \/ B_Exhausted \/ B_Health \/ Finish

SpecB == InitB /\ [][NextB]_vars

----------------------------------------------------------------------------
(* Variant A: src/app.py *)

MinMessages == 1
MinTitleLen == 2
MaxTitleLen == 100
MinUserLen == 1
MinFocus == 1
MinConclusionMessages == 3

SpacedTitle == <<" ", "a", "&", "b", " ">>
ShortTitle == <<"x">>
LimitTitle == [i \in 1..MaxTitleLen |-> "x"]
LongTitle == [i \in 1..(MaxTitleLen + 1) |-> "x"]

\* ChatRequest: messages (min_items=1) and discussionTitle (2..100 characters) are
\* required, user_id is optional (min_length=1)
ChatRequestValid(body) ==
    /\ body.hasMessages /\ Len(body.messages) >= MinMessages
    /\ body.hasTitle /\ Len(body.title) >= MinTitleLen /\ Len(body.title) <= MaxTitleLen
    /\ body.hasUser => Len(body.user) >= MinUserLen

\* ConclusionRequest(ChatRequest): focus_areas is optional (min_items=1)
ConclusionRequestValid(body) ==
    /\ ChatRequestValid(body)
    /\ body.hasFocus => Len(body.focus) >= MinFocus

\* markupsafe.escape
EscapeChar(c) ==
    CASE c = "&" -> "&amp;"
      [] c = "<" -> "&lt;"
      [] c = ">" -> "&gt;"
      [] c = "'" -> "&#39;"
      [] c = "\"" -> "&#34;"
      [] OTHER -> c

escape(s) == [i \in 1..Len(s) |-> EscapeChar(s[i])]

sanitize_input(text) == escape(strip(text))

\* get_ai_response: final_prompt, CONCLUSION_PROMPT.format(...) when a system
\* prompt is passed and the facilitation f-string otherwise
FinalPromptA(conclude, context) ==
    IF conclude
    THEN <<"Generate comprehensive conclusion with EXACT structure: ... Discussion: ">>
            \o sanitize_input(context) \o <<"INSTRUCTIONS: ... Maintain professional tone">>
    ELSE <<"You are TRISH, an AI discussion facilitator. Current discussion: ">>
            \o sanitize_input(context) \o <<". Your role: ... Ensure participation balance">>

HighDemand == Msg("Our AI service is currently experiencing high demand. Please try again in a moment.")
TroubleProcessing == Msg("We're having trouble processing the AI response. Please try again.")
TemporarilyUnavailable == Msg("Our discussion service is temporarily unavailable. Please try again later.")

\* get_ai_response: the content, or the apology its except clauses return
get_ai_response(out) ==
    CASE out.kind = "http" -> HighDemand
      [] out.kind = "nomessage" -> TroubleProcessing
      [] out.kind \in {"transport", "nochoices", "null"} -> TemporarilyUnavailable
      [] OTHER -> IF IsBlank(out.content) THEN TemporarilyUnavailable ELSE out.content

required_sections == <<KeyPoints, Insights, Agreements, ActionPlan>>

\* the check with its membership test negated: section not in response
HasRequiredSectionsNegated(text) ==
    \A k \in 1..Len(required_sections) : ~InText(required_sections[k], text)

\* all(section in response for section in required_sections)
HasRequiredSections(text) ==
    \A k \in 1..Len(required_sections) : InText(required_sections[k], text)

OutcomesA ==
    {Outcome(k, EmptyText) : k \in FailureKinds}
    \cup {Outcome("ok", t) : t \in {EmptyText, BlankText, ChatReply, GoodConclusion,
                                    BareConclusion, PartialConclusion}}

BodiesA ==
    { Body(TRUE, 1, TRUE, PlainTitle),
      Body(TRUE, 2, TRUE, ScriptTitle),
      Body(TRUE, 3, TRUE, SpacedTitle),
      Body(TRUE, 3, TRUE, LimitTitle),
      Body(TRUE, 3, TRUE, LongTitle),
      Body(TRUE, 3, TRUE, ShortTitle),
      Body(TRUE, 0, TRUE, PlainTitle),
      Body(FALSE, 0, TRUE, PlainTitle),
      Body(TRUE, 3, FALSE, <<>>),
      FullBody(TRUE, 3, TRUE, PlainTitle, TRUE, <<>>, FALSE, 0),
      FullBody(TRUE, 3, TRUE, ScriptTitle, TRUE, <<"u">>, TRUE, 1),
      FullBody(TRUE, 3, TRUE, PlainTitle, FALSE, <<>>, TRUE, 0) }

InvalidFormat == Response(400, "error", Msg("Invalid request format"), <<>>, "-")
ValidationFailed == Response(400, "error", Msg("str(ValidationError)"), <<>>, "false")
NotEnoughContent ==
    Response(400, "error", Msg("Not enough discussion content to generate conclusion"), <<>>, "false")
QualityCheckFailed ==
    Response(500, "error", Msg("Conclusion generation quality check failed"), <<>>, "true")

InitA ==
    /\ API_KEYS = <<>>
    /\ OPENROUTER_API_KEY \in {"None", "", "A"}
    /\ provider = <<>>
    /\ request = NoRequest
    /\ pc = "idle"
    /\ idx = 0
    /\ calls = <<>>
    /\ response = NoResponse
    /\ health = NoHealth
    /\ LimiterIdle
    /\ ParserIdle

\* chat, up to the call of get_ai_response
A_Chat ==
    /\ pc = "idle"
    /\ \E body \in BodiesA :
          /\ request' = [variant |-> "A", endpoint |-> "chat", body |-> body]
          /\ IF ChatRequestValid(body)
             THEN /\ pc' = "provider"
                  /\ response' = NoResponse
             ELSE /\ pc' = "done"
                  /\ response' = InvalidFormat
    /\ calls' = <<>>
    /\ UNCHANGED <<API_KEYS, OPENROUTER_API_KEY, provider, idx>>
    /\ UNCHANGED health
    /\ UNCHANGED limiterVars
    /\ UNCHANGED parserVars

\* generate_conclusion, up to the call of get_ai_response
A_Conclusion ==
    /\ pc = "idle"
    /\ \E body \in BodiesA :
          /\ request' = [variant |-> "A", endpoint |-> "generate_conclusion", body |-> body]
          /\ IF ~ConclusionRequestValid(body)
             THEN /\ pc' = "done"
                  /\ response' = ValidationFailed
             ELSE IF Len(body.messages) < MinConclusionMessages
             THEN /\ pc' = "done"
                  /\ response' = NotEnoughContent
             ELSE /\ pc' = "provider"
                  /\ response' = NoResponse
    /\ calls' = <<>>
    /\ UNCHANGED <<API_KEYS, OPENROUTER_API_KEY, provider, idx>>
    /\ UNCHANGED health
    /\ UNCHANGED limiterVars
    /\ UNCHANGED parserVars

\* get_ai_response and the rest of the handler (a call made with no key, as
\* "Bearer None", is refused by the provider with an error status)
A_Provider ==
    /\ pc = "provider"
    /\ \E out \in OutcomesA :
          /\ Unusable(OPENROUTER_API_KEY) => out = Outcome("http", EmptyText)
          /\ LET conclude == request.endpoint = "generate_conclusion"
                 text == get_ai_response(out)
             IN /\ provider' = <<out>>
                /\ calls' = Append(calls,
                      [slot |-> 1,
                       key |-> OPENROUTER_API_KEY,
                       prompt |-> FinalPromptA(conclude, request.body.title),
                       messages |-> request.body.messages,
                       outcome |-> out])
                /\ response' =
                      IF ~conclude THEN Response(200, "response", text, <<>>, "-")
                      ELSE IF ~HasRequiredSections(text) THEN QualityCheckFailed
                      ELSE Response(200, "conclusion", text, <<>>, "-")
    /\ pc' = "done"
    /\ UNCHANGED <<API_KEYS, OPENROUTER_API_KEY, request, idx>>
    /\ UNCHANGED health
    /\ UNCHANGED limiterVars
    /\ UNCHANGED parserVars

NextA == A_Chat \/ A_Conclusion \/ A_Provider \/ Finish

SpecA == InitA /\ [][NextA]_vars

----------------------------------------------------------------------------
(* The Completion Gateway: claims C1 to C4 *)

\* An attempt fails, in the sense of the gateway's contract: a transport error, a
\* non-2xx status, a payload without a usable choice, or a content that is absent,
\* empty or whitespace-only.
FailedAttempt(out) == out.kind \in FailureKinds \/ (out.kind = "ok" /\ IsBlank(out.content))

SucceededAttempt(out) == out.kind = "ok" /\ ~IsBlank(out.content)

\* the credentials attempted for the request, in the order of the attempts
CallKeys == [i \in 1..Len(calls) |-> calls[i].key]

\* a credential the loop would attempt exists after pool position i
UsableAfter(i) == \E j \in (i + 1)..Len(API_KEYS) : ~Unusable(API_KEYS[j])

NextUsable(i) == CHOOSE j \in (i + 1)..Len(API_KEYS) :
                    /\ ~Unusable(API_KEYS[j])
                    /\ \A k \in (i + 1)..(j - 1) : Unusable(API_KEYS[k])

C2_NeverBlankSuccess ==
    pc = "done" =>
      /\ response.status = 200 =>
            /\ ~IsBlank(response.text)
            /\ \E i \in 1..Len(calls) :
                  calls[i].outcome.kind = "ok" /\ calls[i].outcome.content = response.text
      /\ \A i \in 1..Len(calls) :
            ( /\ calls[i].outcome.kind = "ok"
              /\ IsBlank(calls[i].outcome.content)
              /\ UsableAfter(calls[i].slot) )
            => i < Len(calls)

\* C3: a failed attempt of any of the three kinds (transport error, non-2xx status,
\* payload without a usable choice) never ends the gateway call while credentials
\* remain: the next credential in pool order is attempted.
C3_FailureIsLocal ==
    pc = "done" =>
      \A i \in 1..Len(calls) :
         ( /\ calls[i].outcome.kind \in {"transport", "http", "nochoices", "nomessage"}
           /\ UsableAfter(calls[i].slot) )
         => /\ i < Len(calls)
            /\ calls[i + 1].slot = NextUsable(calls[i].slot)

\* C4: when every provider attempt of a POST /api/chat request failed, the response
\* is an error with status 503 or 500, never a 200 that carries a response text.
C4_ExhaustionIsAnError ==
    ( /\ pc = "done"
      /\ request.endpoint = "chat"
      /\ calls # <<>>
      /\ \A i \in 1..Len(calls) : FailedAttempt(calls[i].outcome) )
    => response.status \in {500, 503}

----------------------------------------------------------------------------
(* The Rate Governor alone *)

HandlerIdle ==
    /\ API_KEYS = <<>>
    /\ OPENROUTER_API_KEY = "None"
    /\ provider = <<>>
    /\ request = NoRequest
    /\ pc = "idle"
    /\ idx = 0
    /\ calls = <<>>
    /\ response = NoResponse
    /\ health = NoHealth

InitRate == HandlerIdle /\ LimiterIdle /\ ParserIdle

NextRate == R_Chat \/ R_Conclusion \/ R_Health \/ L_Tick

SpecRate == InitRate /\ [][NextRate]_vars

NextQuota == Q_Chat \/ Q_Conclusion \/ L_Tick

SpecQuota == InitRate /\ [][NextQuota]_vars

----------------------------------------------------------------------------
(* The Rate Governor: claims C5 and C6 *)

\* C5 as stated: with the ceiling of 15 a minute on POST /api/chat, a request that
\* is at most the 15th chat request of the last 60 seconds is let through and the
\* 16th chat request of the last 60 seconds is rejected.
C5_AnyMinute ==
    last.route = "chat" =>
      /\ ArrivedInMinute <= ChatPerMinute => last.status = 200
      /\ ArrivedInMinute = ChatPerMinute + 1 => last.status = RateLimited

\* C5, amended: counted within one window of the limiter (the 60 seconds that begin
\* with the first chat request received after the previous window ended), the 15th
\* chat request is let through and every later one of the window is rejected.
C5_FixedWindow ==
    last.route = "chat" =>
      /\ arrivals.inWindow <= ChatPerMinute => last.status = 200
      /\ arrivals.inWindow > ChatPerMinute => last.status = RateLimited

\* the 16th chat request of a window that was opened at an earlier instant is rejected
C5_Witness ==
    /\ last.route = "chat"
    /\ last.status = RateLimited
    /\ arrivals.inWindow = ChatPerMinute + 1
    /\ arrivals.opened < now

\* C6: the chat and generate_conclusion requests of one client that are let through
\* within one hour never number more than 50, nor more than 200 within one day.
\* (MaxTime is less than an hour, so `served` counts requests of one hour.)
C6_GlobalCeilings ==
    now < HourTicks => (served <= PerHour /\ served <= PerDay)

----------------------------------------------------------------------------
(* The Conclusion Parser alone: parse_conclusion applied to generated texts *)

IndentedBullet == <<" ", "-", " ", "b", " ">>
PlainLine == <<"note">>

ParserLines ==
    { HeaderLine(KeyPoints), HeaderLine(Insights),
      BulletLine("a"), BulletLine("b"), BulletLine("c"),
      IndentedBullet, PlainLine }

ParserTexts == UNION {[1..n -> ParserLines] : n \in 1..MaxLines}

InitParse ==
    /\ HandlerIdle
    /\ LimiterIdle
    /\ document \in ParserTexts
    /\ parsed = NotParsed

P_Parse ==
    /\ ~parsed.done
    /\ parsed' = [done |-> TRUE, sections |-> parse_conclusion(document)]
    /\ UNCHANGED document
    /\ UNCHANGED <<handlerVars, limiterVars>>

NextParse == P_Parse

SpecParse == InitParse /\ [][NextParse]_vars

----------------------------------------------------------------------------
(* The Conclusion Pipeline: claims C7 to C10 *)

\* the text holds the header "## <name>" of every required section
HasRequiredHeaders(t) ==
    \A k \in 1..Len(required_sections) : InText(HeaderMark \o required_sections[k], t)

\* C7: generate_conclusion answers 200 with the conclusion exactly for the
\* generated texts that hold all four "## <name>" headers, and answers every other
\* generated text with 500 and retry true.
C7_HeadersRequired ==
    ( /\ pc = "done"
      /\ request.variant = "A"
      /\ request.endpoint = "generate_conclusion"
      /\ calls # <<>> )
    => LET generated == get_ai_response(calls[1].outcome) IN
       IF HasRequiredHeaders(generated)
       THEN response.status = 200 /\ response.body = "conclusion" /\ response.text = generated
       ELSE response.status = 500 /\ response.retry = "true"

\* C8: a conclusion request with fewer than 3 messages is answered 400 and no
\* provider call is made for it; one with 3 messages is not turned away.
C8_TranscriptGate ==
    (pc = "done" /\ request.endpoint = "generate_conclusion") =>
      /\ Len(request.body.messages) < MinConclusionMessages =>
            (response.status = 400 /\ calls = <<>>)
      /\ ( /\ Len(request.body.messages) = MinConclusionMessages
           /\ request.variant = "A" => ConclusionRequestValid(request.body) )
         => response.status # 400

\* C10: no "<" and no ">" of a title reaches a prompt sent to the provider, in
\* either mode (the prompts' own wording holds neither character).
C10_NoRawMarkup ==
    \A i \in 1..Len(calls) :
       \A j \in 1..Len(calls[i].prompt) : calls[i].prompt[j] \notin {"<", ">"}

----------------------------------------------------------------------------
(* The Conclusion Parser: claim C9 *)

IsHeader(line) == startswith(line, HeaderMark)
IsBullet(line) == startswith(line, BulletMark)
HeaderName(line) == strip(SubSeq(line, 4, Len(line)))
BulletText(line) == strip(SubSeq(line, 3, Len(line)))

Least(S) == CHOOSE m \in S : \A x \in S : m <= x
Greatest(S) == CHOOSE m \in S : \A x \in S : m >= x

RECURSIVE Ascending(_)
Ascending(S) == IF S = {} THEN <<>> ELSE <<Least(S)>> \o Ascending(S \ {Least(S)})

\* What a reading of the lines L, one by one, ends with: the names of the header
\* lines in the order of their first occurrence, each with the bullets of the
\* lines that lie in the section its latest header line opened, in text order.
SectionsOf(L) ==
    LET headers == {i \in 1..Len(L) : IsHeader(L[i])}
        \* the header line whose section line i lies in (0: none is open)
        Opener(i) == IF \E h \in headers : h < i
                     THEN Greatest({h \in headers : h < i}) ELSE 0
        firsts == {h \in headers : \A g \in headers : g < h => HeaderName(L[g]) # HeaderName(L[h])}
        lasts == {h \in headers : \A g \in headers : g > h => HeaderName(L[g]) # HeaderName(L[h])}
        LastOf(h) == CHOOSE g \in lasts : HeaderName(L[g]) = HeaderName(L[h])
        Bullets(h) == LET at == Ascending({i \in 1..Len(L) :
                                    /\ i \notin headers
                                    /\ IsBullet(L[i])
                                    /\ Opener(i) = LastOf(h)})
                      IN [k \in 1..Len(at) |-> BulletText(L[at[k]])]
        order == Ascending(firsts)
    IN [k \in 1..Len(order) |-> [name |-> HeaderName(L[order[k]]), bullets |-> Bullets(order[k])]]

ExampleText ==
    << HeaderLine(KeyPoints), BulletLine("a"), BulletLine("b"), HeaderLine(Insights), BulletLine("c") >>

ExampleSections ==
    << [name |-> KeyPoints, bullets |-> << <<"a">>, <<"b">> >>],
       [name |-> Insights, bullets |-> << <<"c">> >>] >>

\* C9 as stated: a line starting with "## " opens a section, a line starting with
\* "- " adds a bullet to the open section, every other line is ignored.
C9_LinesAsWritten ==
    parsed.done => parsed.sections = SectionsOf(document)

\* C9, amended: the same of the lines after each was trimmed of the whitespace
\* around it; and the example text yields Key Points Summary: [a, b] followed by
\* Major Insights: [c].
C9_LinesTrimmed ==
    parsed.done =>
      /\ parsed.sections = SectionsOf([i \in 1..Len(document) |-> strip(document[i])])
      /\ document = ExampleText => parsed.sections = ExampleSections

C9_Witness ==
    /\ parsed.done
    /\ document = ExampleText
    /\ parsed.sections = ExampleSections

----------------------------------------------------------------------------
(* The Credential Pool: claims C11, C15 and C16 *)

\* the pool entries get_trish_response attempts for a request: those it does not skip
Attemptable == {i \in 1..Len(API_KEYS) : ~Unusable(API_KEYS[i])}

\* C11: GET /api/health reports as available_keys the number of pool entries the
\* gateway would attempt for a request (an entry that is unset or is the empty
\* string is not counted); a request that exhausted the pool made that many calls.
C11_HealthCountsUsable ==
    health.status = 200 =>
      /\ health.available_keys = Cardinality(Attemptable)
      /\ (pc = "done" /\ response = UnavailableB) => Len(calls) = health.available_keys

\* the pool positions of the attempts made for the request, in order
CallSlots == [i \in 1..Len(calls) |-> calls[i].slot]

\* get_trish_response returned a content, or None after the whole pool
EndedInSuccessOrExhaustion ==
    \/ response.status = 200 /\ calls # <<>> /\ response.text = calls[Len(calls)].outcome.content
    \/ response = UnavailableB

\* C15: within one request every credential of the pool is attempted at most once
\* (the attempts go up the pool), none is attempted after the first successful
\* attempt, at most as many attempts are made as the pool has credentials, and the
\* gateway call ends with a success or with exhaustion.
C15_BoundedSinglePass ==
    /\ \A i, j \in 1..Len(calls) : i < j => calls[i].slot < calls[j].slot
    /\ \A i \in 1..Len(calls) : SucceededAttempt(calls[i].outcome) => i = Len(calls)
    /\ Len(calls) <= Len(API_KEYS)
    /\ pc = "done" => EndedInSuccessOrExhaustion

\* the parts of C15 that bound the work of a request
C15_AttemptsBounded ==
    /\ \A i, j \in 1..Len(calls) : i < j => calls[i].slot < calls[j].slot
    /\ \A i \in 1..Len(calls) : SucceededAttempt(calls[i].outcome) => i = Len(calls)
    /\ Len(calls) <= Cardinality(Attemptable)

\* no credential is configured: every entry of the pool is unset or empty
NoCredential == \A i \in 1..Len(API_KEYS) : API_KEYS[i] \in {"None", ""}

\* C16: a pool without a usable credential is refused at start-up: the service
\* never takes a request with such a pool, and so never answers one at request
\* time with the provider-unavailable error for want of a credential.
C16_EmptyPoolNeverServes ==
    NoCredential =>
      /\ request = NoRequest
      /\ ~(pc = "done" /\ response = UnavailableB)

\* C16, amended: a pool without a usable credential is not refused at start-up; the
\* service takes requests, issues no provider call for them and answers each at
\* request time with the provider-unavailable error (503).
C16_EmptyPoolAnsweredAtRequestTime ==
    NoCredential =>
      /\ calls = <<>>
      /\ pc = "done" => response = UnavailableB

\* a request taken with no credential configured has been answered 503
C16_Witness ==
    /\ NoCredential
    /\ Len(API_KEYS) > 1
    /\ pc = "done"
    /\ request # NoRequest
    /\ calls = <<>>
    /\ response = UnavailableB

----------------------------------------------------------------------------
(* Request validation: claim C12 *)

\* the body is well-formed for the endpoint: messages non-empty, the title of 2 to
\* 100 characters, the optional fields non-empty when present
WellFormed(req) ==
    IF req.endpoint = "chat" THEN ChatRequestValid(req.body) ELSE ConclusionRequestValid(req.body)

\* C12: a request with a malformed or out-of-range body is answered with a 4xx
\* status and no provider call is issued for it, on POST /api/chat and on
\* POST /api/generate-conclusion.
C12_InvalidNeverReachesGateway ==
    (request # NoRequest /\ ~WellFormed(request)) =>
      /\ calls = <<>>
      /\ pc = "done" => response.status \in 400..499

----------------------------------------------------------------------------
(* The Conclusion Pipeline: claims C13 and C17 *)

\* C13: a response carries a parsed `structured` object only for a generated text
\* that the Conclusion Validator accepted: the text holds the "## <name>" header of
\* every required section.
C13_ParsedOnlyAfterValidation ==
    ( /\ pc = "done"
      /\ response.body = "conclusion"
      /\ response.structured # <<>> )
    => HasRequiredHeaders(response.text)

\* C17: in the single-credential variant, a conclusion request whose provider
\* attempt failed is never answered 200 with a conclusion: get_ai_response gives an
\* apology, which holds none of the required section names, and the answer is 500
\* with retry true.
C17_FailedAttemptNoConclusion ==
    ( /\ pc = "done"
      /\ request.variant = "A"
      /\ request.endpoint = "generate_conclusion"
      /\ calls # <<>>
      /\ FailedAttempt(calls[1].outcome) )
    => /\ get_ai_response(calls[1].outcome) \in {HighDemand, TroubleProcessing, TemporarilyUnavailable}
       /\ \A k \in 1..Len(required_sections) :
             ~InText(required_sections[k], get_ai_response(calls[1].outcome))
       /\ response.status = 500
       /\ response.body # "conclusion"
       /\ response.retry = "true"

\* a conclusion request whose provider call timed out has been answered 500
C17_Witness ==
    /\ pc = "done"
    /\ request.variant = "A"
    /\ request.endpoint = "generate_conclusion"
    /\ calls # <<>>
    /\ calls[1].outcome.kind = "transport"
    /\ response = QualityCheckFailed

----------------------------------------------------------------------------
(* The Conclusion Parser: claim C18 *)

\* the lines of the document as the loop sees them
Trimmed == [i \in 1..Len(document) |-> strip(document[i])]

HeaderLines == {i \in 1..Len(document) : IsHeader(Trimmed[i])}

HeaderNames == {HeaderName(Trimmed[h]) : h \in HeaderLines}

FirstOccurrence(name) == Least({h \in HeaderLines : HeaderName(Trimmed[h]) = name})
LastOccurrence(name) == Greatest({h \in HeaderLines : HeaderName(Trimmed[h]) = name})

\* the bullets of the lines between header line h and the header line after it
BulletsBelow(h) ==
    LET at == Ascending({i \in (h + 1)..Len(document) :
                            /\ IsBullet(Trimmed[i])
                            /\ \A g \in HeaderLines : ~(h < g /\ g < i)})
    IN [k \in 1..Len(at) |-> BulletText(Trimmed[at[k]])]

\* C18: when a "## <name>" header occurs more than once, the result holds for that
\* name the bullets that follow its last occurrence and no others, the names stand
\* in the order of their first occurrences, and the result holds no more keys than
\* the text has distinct header names.
C18_RepeatedHeaderResets ==
    parsed.done =>
      /\ Len(parsed.sections) <= Cardinality(HeaderNames)
      /\ \A k \in 1..Len(parsed.sections) :
            /\ parsed.sections[k].name \in HeaderNames
            /\ parsed.sections[k].bullets = BulletsBelow(LastOccurrence(parsed.sections[k].name))
      /\ \A k, l \in 1..Len(parsed.sections) :
            k < l => FirstOccurrence(parsed.sections[k].name) < FirstOccurrence(parsed.sections[l].name)

RepeatedText ==
    << HeaderLine(KeyPoints), BulletLine("a"), HeaderLine(Insights), HeaderLine(KeyPoints), BulletLine("b") >>

\* "Key Points Summary" occurs twice: it keeps the first place and holds only "b"
C18_Witness ==
    /\ parsed.done
    /\ document = RepeatedText
    /\ parsed.sections = << [name |-> KeyPoints, bullets |-> << <<"b">> >>],
                            [name |-> Insights, bullets |-> <<>>] >>

====
